---------------------------- MODULE Spec2Model ----------------------------
(***************************************************************************)
(* The two raster tutorial notebooks as state machines.                    *)
(*                                                                         *)
(* A notebook is a list of code cells, a cell a list of statements.  A     *)
(* kernel runs the cells top to bottom, one statement at a time.  A        *)
(* statement that raises aborts the rest of its cell; the run then either  *)
(* halts (Run All) or goes on with the next cell (cells run by hand).      *)
(*                                                                         *)
(* Numbers held by raster cells are fixed-point: a cell value v stands for *)
(* the number v / Res, so non-integer population values exist.             *)
(***************************************************************************)
EXTENDS Integers, Sequences, FiniteSets, TLC

----------------------------------------------------------------------------
(* Bounds of the model *)

\* rows and columns of the input raster
Height == 2
Width == 3
\* fixed-point resolution: values are multiples of 1/Res
Res == 2
\* world units the reprojected box may reach beyond the raster's extent
Margin == 1

(* Numbers written in the notebook *)

\* band_cropped > 5000
Threshold == 5000
\* np.where(mask, band_cropped, -200)
FillValue == -200
\* .rio.write_nodata(-200)
XNodata == -200
\* "the number that indicates a null value is -200"
FileNodata == -200

Fix(n) == n * Res

Notebooks == {"full", "short"}

InputPath == "data/GHS_POP_E2020_GLOBE_R2023A_54009_1000_V1_0_R3_C18.tif"
OutputPath == "data/modified_raster.tif"
Paths == {InputPath, OutputPath}

----------------------------------------------------------------------------
(* The notebooks: cells of statements, in the order of the files *)

FullImports ==
    {"os", "gpd", "plt", "np", "rio", "xr", "vectorize", "here",
     "raster_geometry_mask", "box"}

ShortImports ==
    {"os", "gpd", "plt", "rio", "here", "raster_geometry_mask", "box"}

\* faulty variant: the filter cell placed before the crop cell
FullCellsReordered ==
    << <<"imports">>,
       <<"open">>,
       <<"print_meta">>,
       <<"read_band">>,
       <<"compare", "where", "get_profile", "update_profile",
         "open_w", "write", "close_w">>,
       <<"bbox", "to_crs", "geometry_mask", "read_crop">>,
       <<"open_r", "read_r", "print_r", "close_r">>,
       <<"to_xarray", "vectorize", "rename", "explore">> >>

FullCells ==
    << <<"imports">>,
       <<"open">>,
       <<"print_meta">>,
       <<"read_band">>,
       <<"bbox", "to_crs", "geometry_mask", "read_crop">>,
       <<"compare", "where", "get_profile", "update_profile",
         "open_w", "write", "close_w">>,
       <<"open_r", "read_r", "print_r", "close_r">>,
       <<"to_xarray", "vectorize", "rename", "explore">> >>

ShortCells ==
    << <<"imports">>,
       <<"open">>,
       <<"print_meta">>,
       <<"read_band">>,
       <<"bbox", "to_crs", "geometry_mask", "read_crop">> >>

Cells(n) == IF n = "full" THEN FullCells ELSE ShortCells

Imports(n) == IF n = "full" THEN FullImports ELSE ShortImports

\* the names a statement reads from the kernel's namespace
Reads(s) ==
    CASE s = "imports" -> {}
      [] s = "open" -> {"os", "here", "rio"}
      [] s = "print_meta" -> {"dataset"}
      [] s = "read_band" -> {"dataset", "plt"}
      [] s = "bbox" -> {}
      [] s = "to_crs" -> {"gpd", "box", "bbox"}
      [] s = "geometry_mask" -> {"raster_geometry_mask", "dataset", "bbox_gdf"}
      [] s = "read_crop" -> {"dataset", "window", "plt"}
      [] s = "compare" -> {"band_cropped"}
      [] s = "where" -> {"np", "mask", "band_cropped", "plt"}
      [] s = "get_profile" -> {"dataset"}
      [] s = "update_profile" -> {"profile", "aff", "filtered_band"}
      [] s = "open_w" -> {"rio", "here", "profile"}
      [] s = "write" -> {"w", "filtered_band"}
      [] s = "close_w" -> {"w"}
      [] s = "open_r" -> {"rio", "here"}
      [] s = "read_r" -> {"r"}
      [] s = "print_r" -> {"r", "plt", "d"}
      [] s = "close_r" -> {"r"}
      [] s = "to_xarray" -> {"xr", "filtered_band", "aff"}
      [] s = "vectorize" -> {"vectorize", "x_array"}
      [] s = "rename" -> {"gdf"}
      [] s = "explore" -> {"gdf"}

\* the names a statement binds when it completes
Writes(s, n) ==
    CASE s = "imports" -> Imports(n)
      [] s = "open" -> {"path", "dataset"}
      [] s = "read_band" -> {"band"}
      [] s = "bbox" -> {"bbox"}
      [] s = "to_crs" -> {"bbox_gdf"}
      [] s = "geometry_mask" -> {"_", "aff", "window"}
      [] s = "read_crop" -> {"band_cropped"}
      [] s = "compare" -> {"mask"}
      [] s = "where" -> {"filtered_band"}
      [] s = "get_profile" -> {"profile"}
      [] s = "open_w" -> {"w"}
      [] s = "open_r" -> {"r"}
      [] s = "read_r" -> {"d"}
      [] s = "to_xarray" -> {"x_array"}
      [] s = "vectorize" -> {"gdf"}
      [] OTHER -> {}

\* the statements that run inside a with block, and the handle it manages
WithHandle(s) ==
    CASE s \in {"write"} -> "w"
      [] s \in {"read_r", "print_r"} -> "r"
      [] OTHER -> ""

----------------------------------------------------------------------------
(* Arrays: a 2-D array is a sequence of rows *)

NRows(m) == Len(m)
NCols(m) == IF Len(m) = 0 THEN 0 ELSE Len(m[1])
Shape(m) == <<NRows(m), NCols(m)>>

\* faulty variant: rounding to the nearest integer instead of dropping the fraction
RoundToInt(v) ==
    IF v >= 0 THEN (2 * v + Res) \div (2 * Res) ELSE -((2 * (-v) + Res) \div (2 * Res))

\* numpy astype to an integer type: the fraction is dropped, toward zero
TruncToInt(v) == IF v >= 0 THEN v \div Res ELSE -((-v) \div Res)

\* a value as held by an array of the given dtype
CastTo(dtype, v) == IF dtype = "float64" THEN v ELSE Fix(TruncToInt(v))

CastArray(dtype, m) ==
    [i \in 1..NRows(m) |-> [j \in 1..NCols(m) |-> CastTo(dtype, m[i][j])]]

----------------------------------------------------------------------------
(* Affine transforms [a 0 c; 0 e f] and windows *)

NullTransform == [a |-> 1, e |-> -1, c |-> 0, f |-> 0]
NullWindow == [col_off |-> 0, row_off |-> 0, width |-> 0, height |-> 0]
NullBounds == [left |-> 0, bottom |-> 0, right |-> 0, top |-> 0]

\* transform * (col, row): the world position of a grid position
XOfCol(t, col) == t.c + t.a * col
YOfRow(t, row) == t.f + t.e * row

FloorDiv(x, d) == x \div d
CeilDiv(x, d) == -((-x) \div d)
Max(x, y) == IF x >= y THEN x ELSE y
Min(x, y) == IF x <= y THEN x ELSE y

\* faulty variant: the last row and column rounded down instead of up
PixelWindowFloor(t, b) ==
    LET col_start == FloorDiv(b.left - t.c, t.a)
        col_stop == FloorDiv(b.right - t.c, t.a)
        row_start == FloorDiv(t.f - b.top, -t.e)
        row_stop == FloorDiv(t.f - b.bottom, -t.e)
    IN [col_off |-> col_start, row_off |-> row_start,
        width |-> Max(col_stop - col_start, 0),
        height |-> Max(row_stop - row_start, 0)]

\* rasterio.features.geometry_window: the bounds of the shape under the
\* inverse transform, floor of the least and ceil of the greatest
\* row and column
PixelWindow(t, b) ==
    LET col_start == FloorDiv(b.left - t.c, t.a)
        col_stop == CeilDiv(b.right - t.c, t.a)
        row_start == FloorDiv(t.f - b.top, -t.e)
        row_stop == CeilDiv(t.f - b.bottom, -t.e)
    IN [col_off |-> col_start, row_off |-> row_start,
        width |-> Max(col_stop - col_start, 0),
        height |-> Max(row_stop - row_start, 0)]

\* Window.intersection with the raster's own window Window(0, 0, width, height)
Intersects(w, height, width) ==
    /\ Max(w.col_off, 0) < Min(w.col_off + w.width, width)
    /\ Max(w.row_off, 0) < Min(w.row_off + w.height, height)

Intersection(w, height, width) ==
    [col_off |-> Max(w.col_off, 0), row_off |-> Max(w.row_off, 0),
     width |-> Min(w.col_off + w.width, width) - Max(w.col_off, 0),
     height |-> Min(w.row_off + w.height, height) - Max(w.row_off, 0)]

\* faulty variant: the input's transform kept for the crop
WindowTransformUnshifted(t, w) == t

\* dataset.window_transform(window) = transform * translation(col_off, row_off)
WindowTransform(t, w) ==
    [a |-> t.a, e |-> t.e,
     c |-> XOfCol(t, w.col_off), f |-> YOfRow(t, w.row_off)]

\* dataset.read(1, window=window)
ReadWindow(data, w) ==
    [i \in 1..w.height |-> [j \in 1..w.width |->
        data[w.row_off + i][w.col_off + j]]]

----------------------------------------------------------------------------
(* Files, profiles and the values the notebook computes *)

NullProfile ==
    [driver |-> "", dtype |-> "", nodata |-> 0, width |-> 0, height |-> 0,
     count |-> 0, crs |-> "", transform |-> NullTransform]

NoFile == [exists |-> FALSE, profile |-> NullProfile, data |-> <<>>]

\* faulty variant: >= in place of >
GreaterOrEqual(m, t) ==
    [i \in 1..NRows(m) |-> [j \in 1..NCols(m) |-> m[i][j] >= Fix(t)]]

\* mask = band_cropped > 5000
GreaterThan(m, t) ==
    [i \in 1..NRows(m) |-> [j \in 1..NCols(m) |-> m[i][j] > Fix(t)]]

\* filtered_band = np.where(mask, band_cropped, -200)
Where(mask, m, fill) ==
    [i \in 1..NRows(m) |-> [j \in 1..NCols(m) |->
        IF mask[i][j] THEN m[i][j] ELSE Fix(fill)]]

\* faulty variant: height and width taken from the wrong axes
UpdateProfileSwapped(profile, aff, shape) ==
    [profile EXCEPT !.transform = aff, !.height = shape[2], !.width = shape[1]]

\* profile.update(transform=aff, height=shape[0], width=shape[1])
UpdateProfile(profile, aff, shape) ==
    [profile EXCEPT !.transform = aff, !.height = shape[1], !.width = shape[2]]

\* rio.open(path, "w", **profile): a new file of the profile's size
Zeros(h, w) == [i \in 1..h |-> [j \in 1..w |-> 0]]
CreateFile(profile) ==
    [exists |-> TRUE, profile |-> profile,
     data |-> Zeros(profile.height, profile.width)]

\* faulty variant: the output written over the input file
WritePathInput == InputPath

\* the path 'with rio.open(here("data/modified_raster.tif"), "w", ...)' writes
WritePath == OutputPath

\* faulty variant: the array stored as integers whatever the file's dtype
WriteBandAsInt(file, m) ==
    [file EXCEPT !.data = CastArray("int32", m)]

\* w.write(filtered_band, 1): the array is stored in the file's dtype
WriteBand(file, m) ==
    [file EXCEPT !.data = CastArray(file.profile.dtype, m)]

\* r.read(1)
ReadBand(file) == file.data

\* xr.DataArray(filtered_band).astype("int32"): cells become plain integers
AsInt32(m) ==
    [i \in 1..NRows(m) |-> [j \in 1..NCols(m) |-> TruncToInt(m[i][j])]]

NullXArray ==
    [data |-> <<>>, nodata |-> 0, transform |-> NullTransform, crs |-> ""]

ToXArray(m, aff) ==
    [data |-> AsInt32(m), nodata |-> XNodata, transform |-> aff,
     crs |-> "ESRI:54009"]

\* geocube vectorize: one polygon for each 4-connected region of equal,
\* non-nodata value
Positions(m) == (1..NRows(m)) \X (1..NCols(m))

Adjacent(p, q) ==
    \/ p[1] = q[1] /\ (p[2] = q[2] + 1 \/ q[2] = p[2] + 1)
    \/ p[2] = q[2] /\ (p[1] = q[1] + 1 \/ q[1] = p[1] + 1)

RECURSIVE Grow(_, _)
Grow(m, S) ==
    LET T == S \cup {q \in Positions(m) :
                 \E p \in S : Adjacent(p, q) /\ m[q[1]][q[2]] = m[p[1]][p[2]]}
    IN IF T = S THEN S ELSE Grow(m, T)

NullFrame == [columns |-> <<>>, rows |-> {}]

Vectorize(x) ==
    [columns |-> <<"_data", "geometry">>,
     rows |-> {[label |-> x.data[p[1]][p[2]], cells |-> Grow(x.data, {p})] :
                  p \in {q \in Positions(x.data) :
                            x.data[q[1]][q[2]] # x.nodata}}]

----------------------------------------------------------------------------
(* State *)

VARIABLES
    fs,        \* the files under data/: path -> file
    world,     \* what lies outside the notebooks: the reprojected box, PROJ
    pc,        \* per notebook: <<cell, statement>> about to run
    status,    \* per notebook: "running", "halted" (stopped at an error), "done"
    ns,        \* per notebook: the values bound in the kernel's namespace
    assigned,  \* per notebook: the names bound in the kernel's namespace
    handles,   \* per notebook: the state of each dataset handle
    log,       \* per notebook: the statements that completed, in order
    errors,    \* per notebook: <<statement, exception>> of each that raised
    display    \* per notebook: the outputs shown, in order

vars == <<fs, world, pc, status, ns, assigned, handles, log, errors, display>>

NullNs ==
    [dataset |-> "", band |-> <<>>, bbox_gdf |-> NullBounds,
     aff |-> NullTransform, window |-> NullWindow, band_cropped |-> <<>>,
     mask |-> <<>>, filtered_band |-> <<>>, profile |-> NullProfile,
     d |-> <<>>, r_profile |-> NullProfile, x_array |-> NullXArray,
     gdf |-> NullFrame]

NoHandles == [dataset |-> "none", w |-> "none", r |-> "none"]

----------------------------------------------------------------------------
(* Initial states: the input file and the world the notebooks run in *)

Dtypes == {"float64", "int32"}

\* cell values on and around the threshold, whole and fractional
Samples ==
    << Fix(FillValue), Fix(Threshold) + 1, Fix(Threshold), 1,
       Fix(Threshold + 1), Fix(Threshold) - 1 >>

Seeds == {0, 1}

Transforms ==
    << [a |-> 2, e |-> -2, c |-> -4, f |-> 6],
       [a |-> 3, e |-> -2, c |-> 3, f |-> -1] >>

SampleData(seed, dtype) ==
    [r \in 1..Height |-> [c \in 1..Width |->
        CastTo(dtype,
               Samples[((seed + (r - 1) * Width + (c - 1)) % Len(Samples)) + 1])]]

InputFile(seed, dtype) ==
    [exists |-> TRUE,
     profile |-> [driver |-> "GTiff", dtype |-> dtype, nodata |-> FileNodata,
                  width |-> Width, height |-> Height, count |-> 1,
                  crs |-> "ESRI:54009", transform |-> Transforms[seed + 1]],
     data |-> SampleData(seed, dtype)]

InputFiles == {InputFile(seed, dtype) : seed \in Seeds, dtype \in Dtypes}

\* the bounds the box may have once reprojected, around a raster's extent
BoxesAround(t) ==
    LET xs == (t.c - Margin)..(XOfCol(t, Width) + Margin)
        ys == (YOfRow(t, Height) - Margin)..(t.f + Margin)
    IN {[left |-> l, bottom |-> b, right |-> r, top |-> u] :
           l \in xs, r \in xs, b \in ys, u \in ys}

\* a box inside the raster's top left cell
CornerBox(t) ==
    [left |-> t.c, bottom |-> t.f - 1, right |-> t.c + 1, top |-> t.f]

ProperBoxes(t) == {b \in BoxesAround(t) : b.left < b.right /\ b.bottom < b.top}

Init ==
    /\ \/ \E file \in InputFiles :
          \E box \in ProperBoxes(file.profile.transform) :
            /\ fs = [p \in Paths |-> IF p = InputPath THEN file ELSE NoFile]
            /\ world = [proj |-> box, crsOk |-> TRUE]
       \/ \E file \in InputFiles, missing \in BOOLEAN :
            \* the input file is missing, or else PROJ does not know the CRS
            /\ fs = [p \in Paths |->
                        IF p = InputPath /\ ~missing THEN file ELSE NoFile]
            /\ world = [proj |-> CornerBox(file.profile.transform),
                        crsOk |-> missing]
    /\ pc = [n \in Notebooks |-> <<1, 1>>]
    /\ status = [n \in Notebooks |-> "running"]
    /\ ns = [n \in Notebooks |-> NullNs]
    /\ assigned = [n \in Notebooks |-> {}]
    /\ handles = [n \in Notebooks |-> NoHandles]
    /\ log = [n \in Notebooks |-> <<>>]
    /\ errors = [n \in Notebooks |-> <<>>]
    /\ display = [n \in Notebooks |-> <<>>]

----------------------------------------------------------------------------
(* The kernel: running one statement *)

Cur(n) == Cells(n)[pc[n][1]][pc[n][2]]

At(n, s) == status[n] = "running" /\ Cur(n) = s

NextPos(n) ==
    IF pc[n][2] < Len(Cells(n)[pc[n][1]])
    THEN <<pc[n][1], pc[n][2] + 1>>
    ELSE <<pc[n][1] + 1, 1>>

NextCell(n) == <<pc[n][1] + 1, 1>>

StatusAt(n, pos) == IF pos[1] > Len(Cells(n)) THEN "done" ELSE "running"

\* the statements whose output the notebook shows
Shows(s) ==
    s \in {"print_meta", "read_band", "read_crop", "where", "get_profile",
           "print_r", "to_xarray", "explore"}

\* the statement completes: its names are bound, the next statement is up
Complete(n, s, ns2, fs2, h2) ==
    /\ pc' = [pc EXCEPT ![n] = NextPos(n)]
    /\ status' = [status EXCEPT ![n] = StatusAt(n, NextPos(n))]
    /\ ns' = [ns EXCEPT ![n] = ns2]
    /\ assigned' = [assigned EXCEPT ![n] = @ \cup Writes(s, n)]
    /\ fs' = fs2
    /\ handles' = [handles EXCEPT ![n] = h2]
    /\ log' = [log EXCEPT ![n] = Append(@, s)]
    /\ display' = [display EXCEPT ![n] = IF Shows(s) THEN Append(@, s) ELSE @]
    /\ UNCHANGED <<world, errors>>

\* a with block closes its handle when its body raises
AfterRaise(h, s) ==
    IF WithHandle(s) = "w" THEN [h EXCEPT !.w = "closed"]
    ELSE IF WithHandle(s) = "r" THEN [h EXCEPT !.r = "closed"]
    ELSE h

\* the statement raises: nothing is bound, the rest of the cell is skipped,
\* and the run halts or goes on with the next cell
Raise(n, s, exception) ==
    /\ \E halt \in BOOLEAN :
         /\ pc' = [pc EXCEPT ![n] = IF halt THEN @ ELSE NextCell(n)]
         /\ status' = [status EXCEPT ![n] =
                          IF halt THEN "halted" ELSE StatusAt(n, NextCell(n))]
    /\ errors' = [errors EXCEPT ![n] = Append(@, <<s, exception>>)]
    /\ handles' = [handles EXCEPT ![n] = AfterRaise(@, s)]
    /\ UNCHANGED <<fs, world, ns, assigned, log, display>>

\* faulty variant: a failing library call is swallowed and the statement counts
\* as done
RunSwallow(n, s, fault, ns2, fs2, h2) ==
    /\ At(n, s)
    /\ IF ~(Reads(s) \subseteq assigned[n]) THEN Raise(n, s, "NameError")
       ELSE IF fault # "" THEN Complete(n, s, ns[n], fs, handles[n])
       ELSE Complete(n, s, ns2, fs2, h2)

\* statement s of notebook n: a name it reads is unbound (NameError), the
\* library call fails (fault), or it completes with the given effect
Run(n, s, fault, ns2, fs2, h2) ==
    /\ At(n, s)
    /\ IF ~(Reads(s) \subseteq assigned[n]) THEN Raise(n, s, "NameError")
       ELSE IF fault # "" THEN Raise(n, s, fault)
       ELSE Complete(n, s, ns2, fs2, h2)

\* a statement with no effect beyond binding names or showing output
Plain(n, s) == Run(n, s, "", ns[n], fs, handles[n])

\* an operation on the dataset behind a handle
Closed(n, h) == IF handles[n][h] = "open" THEN "" ELSE "RasterioIOError"

Input(n) == IF ns[n].dataset \in Paths THEN fs[ns[n].dataset] ELSE NoFile

----------------------------------------------------------------------------
(* The statements *)

\* import os, geopandas, ... (the first cell)
ImportModules(n) == Plain(n, "imports")

\* path = here("data"); dataset = rio.open(os.path.join(path, "GHS_POP_..."))
OpenDataset(n) ==
    Run(n, "open",
        IF fs[InputPath].exists THEN "" ELSE "RasterioIOError",
        [ns[n] EXCEPT !.dataset = InputPath],
        fs,
        [handles[n] EXCEPT !.dataset = "open"])

\* print(dataset.count) ... print(dataset.bounds)
PrintMeta(n) ==
    Run(n, "print_meta", Closed(n, "dataset"), ns[n], fs, handles[n])

\* band = dataset.read(1); print(band); plt.imshow(band)
ReadFullBand(n) ==
    Run(n, "read_band", Closed(n, "dataset"),
        [ns[n] EXCEPT !.band = ReadBand(Input(n))], fs, handles[n])

\* bbox = [-3.6955, 51.1869, -2.3002, 51.9855]
AssignBbox(n) == Plain(n, "bbox")

\* bbox_gdf = gpd.GeoDataFrame(geometry=[box(*bbox)], crs="EPSG: 4326")
\*                .to_crs("ESRI: 54009")
Reproject(n) ==
    Run(n, "to_crs",
        IF world.crsOk THEN "" ELSE "CRSError",
        [ns[n] EXCEPT !.bbox_gdf = world.proj], fs, handles[n])

\* _, aff, window = raster_geometry_mask(dataset, bbox_gdf.geometry.values,
\*                                       crop=True, all_touched=True)
GeometryMask(n) ==
    LET t == Input(n).profile.transform
        pw == PixelWindow(t, ns[n].bbox_gdf)
        h == Input(n).profile.height
        w == Input(n).profile.width
        window == Intersection(pw, h, w)
    IN Run(n, "geometry_mask",
           IF Closed(n, "dataset") # "" THEN Closed(n, "dataset")
           ELSE IF Intersects(pw, h, w) THEN "" ELSE "ValueError",
           [ns[n] EXCEPT !.window = window, !.aff = WindowTransform(t, window)],
           fs, handles[n])

\* band_cropped = dataset.read(1, window=window); plt.imshow(band_cropped)
ReadCrop(n) ==
    Run(n, "read_crop", Closed(n, "dataset"),
        [ns[n] EXCEPT !.band_cropped = ReadWindow(ReadBand(Input(n)), ns[n].window)],
        fs, handles[n])

\* mask = band_cropped > 5000
Compare(n) ==
    Run(n, "compare", "",
        [ns[n] EXCEPT !.mask = GreaterThan(ns[n].band_cropped, Threshold)],
        fs, handles[n])

\* filtered_band = np.where(mask, band_cropped, -200); plt.imshow(filtered_band)
WhereStmt(n) ==
    Run(n, "where", "",
        [ns[n] EXCEPT !.filtered_band =
            Where(ns[n].mask, ns[n].band_cropped, FillValue)],
        fs, handles[n])

\* profile = dataset.profile; print(profile)
GetProfile(n) ==
    Run(n, "get_profile", Closed(n, "dataset"),
        [ns[n] EXCEPT !.profile = Input(n).profile], fs, handles[n])

\* profile.update(transform=aff, height=filtered_band.shape[0],
\*                width=filtered_band.shape[1])
UpdateProfileStmt(n) ==
    Run(n, "update_profile", "",
        [ns[n] EXCEPT !.profile =
            UpdateProfile(ns[n].profile, ns[n].aff, Shape(ns[n].filtered_band))],
        fs, handles[n])

\* with rio.open(here("data/modified_raster.tif"), "w", **profile) as w:
OpenWrite(n) ==
    Run(n, "open_w", "", ns[n],
        [fs EXCEPT ![WritePath] = CreateFile(ns[n].profile)],
        [handles[n] EXCEPT !.w = "open"])

\*     w.write(filtered_band, 1)
WriteStmt(n) ==
    Run(n, "write",
        IF Closed(n, "w") # "" THEN Closed(n, "w")
        ELSE IF Shape(ns[n].filtered_band) =
                  <<fs[WritePath].profile.height, fs[WritePath].profile.width>>
             THEN "" ELSE "ValueError",
        ns[n],
        [fs EXCEPT ![WritePath] = WriteBand(@, ns[n].filtered_band)],
        handles[n])

\* faulty variant: the write handle left open at the end of the block
CloseWriteLeak(n) == Run(n, "close_w", "", ns[n], fs, handles[n])

\* the end of the with block
CloseWrite(n) ==
    Run(n, "close_w", "", ns[n], fs, [handles[n] EXCEPT !.w = "closed"])

\* with rio.open(here("data/modified_raster.tif")) as r:
OpenRead(n) ==
    Run(n, "open_r",
        IF fs[OutputPath].exists THEN "" ELSE "RasterioIOError",
        ns[n], fs, [handles[n] EXCEPT !.r = "open"])

\*     d = r.read(1)
ReadBack(n) ==
    Run(n, "read_r", Closed(n, "r"),
        [ns[n] EXCEPT !.d = ReadBand(fs[OutputPath])], fs, handles[n])

\*     print(r.profile); plt.imshow(d)
PrintBack(n) ==
    Run(n, "print_r", Closed(n, "r"),
        [ns[n] EXCEPT !.r_profile = fs[OutputPath].profile], fs, handles[n])

\* the end of the with block
CloseRead(n) ==
    Run(n, "close_r", "", ns[n], fs, [handles[n] EXCEPT !.r = "closed"])

\* x_array = xr.DataArray(filtered_band).astype("int32").rio.write_nodata(-200)
\*               .rio.write_transform(aff).rio.set_crs("ESRI: 54009"); print(x_array)
ToXArrayStmt(n) ==
    Run(n, "to_xarray", "",
        [ns[n] EXCEPT !.x_array = ToXArray(ns[n].filtered_band, ns[n].aff)],
        fs, handles[n])

\* gdf = vectorize(x_array)
VectorizeStmt(n) ==
    Run(n, "vectorize", "",
        [ns[n] EXCEPT !.gdf = Vectorize(ns[n].x_array)], fs, handles[n])

\* gdf.columns = ["label", "geometry"]
Rename(n) ==
    Run(n, "rename", "",
        [ns[n] EXCEPT !.gdf.columns = <<"label", "geometry">>], fs, handles[n])

\* gdf.explore()
Explore(n) == Plain(n, "explore")

Statement(n) ==
    \/ ImportModules(n)
    \/ OpenDataset(n)
    \/ PrintMeta(n)
    \/ ReadFullBand(n)
    \/ AssignBbox(n)
    \/ Reproject(n)
    \/ GeometryMask(n)
    \/ ReadCrop(n)
    \/ Compare(n)
    \/ WhereStmt(n)
    \/ GetProfile(n)
    \/ UpdateProfileStmt(n)
    \/ OpenWrite(n)
    \/ WriteStmt(n)
    \/ CloseWrite(n)
    \/ OpenRead(n)
    \/ ReadBack(n)
    \/ PrintBack(n)
    \/ CloseRead(n)
    \/ ToXArrayStmt(n)
    \/ VectorizeStmt(n)
    \/ Rename(n)
    \/ Explore(n)

\* the full notebook run on its own
Next == Statement("full")

Spec == Init /\ [][Next]_vars

\* both notebooks run, each in its own kernel, on the same data directory;
\* the box is narrower than a cell or a little wider than one
PairBox(b) ==
    /\ b.right - b.left \in {1, 3}
    /\ b.top - b.bottom \in {1, 3}

InitPair == Init /\ PairBox(world.proj)

NextPair == \E n \in Notebooks : Statement(n)

SpecPair == InitPair /\ [][NextPair]_vars

----------------------------------------------------------------------------
(* Vocabulary of the properties *)

RECURSIVE Flatten(_)
Flatten(cells) ==
    IF cells = <<>> THEN <<>> ELSE Head(cells) \o Flatten(Tail(cells))

Range(q) == {q[i] : i \in 1..Len(q)}

IndexIn(q, s) == CHOOSE i \in 1..Len(q) : q[i] = s

IsPrefix(p, q) == Len(p) <= Len(q) /\ p = SubSeq(q, 1, Len(p))

\* q lists members of order, each at most once, in order's order
InOrder(q, order) ==
    /\ Range(q) \subseteq Range(order)
    /\ \A i, j \in 1..Len(q) : i < j => IndexIn(order, q[i]) < IndexIn(order, q[j])

Ran(n, s) == s \in Range(log[n])

Failed(n, s) == \E i \in 1..Len(errors[n]) : errors[n][i][1] = s

Clean(n) == errors[n] = <<>>

Finished(n) == status[n] = "done" /\ Clean(n)

\* the names bound by the statements of q
BoundBy(q, n) == UNION {Writes(q[i], n) : i \in 1..Len(q)}

\* the statement that carries out each step of the flow, in the flow's order:
\* open file, print metadata, read band, compute crop window, read cropped
\* band, threshold values, write new file, re-read to verify, convert to a
\* labeled array, vectorize, render
FlowSteps ==
    <<"open", "print_meta", "read_band", "geometry_mask", "read_crop", "where",
      "write", "read_r", "to_xarray", "vectorize", "explore">>

FlowLog(n) == SelectSeq(log[n], LAMBDA s : s \in Range(FlowSteps))

----------------------------------------------------------------------------
(* C1 *)

\* C1: the steps of the flow happen in the flow's order, none twice, and all
\* of them exactly once when the run reaches the end without an error; while
\* no statement has raised the steps done are a prefix of the flow; every
\* statement that ran read only names bound by statements that ran before
\* it, so the first error of a run is never a NameError.
C1_LinearFlow ==
    /\ InOrder(FlowLog("full"), FlowSteps)
    /\ InOrder(log["full"], Flatten(FullCells))
    /\ Clean("full") => IsPrefix(FlowLog("full"), FlowSteps)
    /\ Finished("full") => /\ FlowLog("full") = FlowSteps
                           /\ log["full"] = Flatten(FullCells)
    /\ \A i \in 1..Len(log["full"]) :
          Reads(log["full"][i]) \subseteq BoundBy(SubSeq(log["full"], 1, i - 1), "full")
    /\ ~Clean("full") => errors["full"][1][2] # "NameError"

\* the whole notebook has run without an error
C1_Witness ==
    /\ Finished("full")
    /\ Len(FlowLog("full")) = Len(FlowSteps)
    /\ display["full"][Len(display["full"])] = "explore"

----------------------------------------------------------------------------
(* C2 *)

Full == ns["full"]

\* C2: once the threshold statement has run, filtered_band has the shape of
\* band_cropped and each of its cells is the cell of band_cropped when that
\* is strictly greater than 5000 and -200 otherwise, so every cell is -200
\* or greater than 5000.
C2_Threshold ==
    Ran("full", "where") =>
        /\ Shape(Full.filtered_band) = Shape(Full.band_cropped)
        /\ \A i \in 1..NRows(Full.band_cropped), j \in 1..NCols(Full.band_cropped) :
              /\ Full.band_cropped[i][j] > 5000 * Res
                    => Full.filtered_band[i][j] = Full.band_cropped[i][j]
              /\ Full.band_cropped[i][j] <= 5000 * Res
                    => Full.filtered_band[i][j] = (-200) * Res
              /\ \/ Full.filtered_band[i][j] = (-200) * Res
                 \/ Full.filtered_band[i][j] > 5000 * Res

\* the threshold has run on a crop that holds a cell of exactly 5000, a
\* nodata cell, a cell just above 5000 and a cell below it
C2_Witness ==
    /\ Ran("full", "where")
    /\ \E i \in 1..NRows(Full.band_cropped), j \in 1..NCols(Full.band_cropped) :
          Full.band_cropped[i][j] = 5000 * Res /\ Full.filtered_band[i][j] = (-200) * Res
    /\ \E i \in 1..NRows(Full.band_cropped), j \in 1..NCols(Full.band_cropped) :
          Full.band_cropped[i][j] = (-200) * Res
    /\ \E i \in 1..NRows(Full.band_cropped), j \in 1..NCols(Full.band_cropped) :
          Full.band_cropped[i][j] = 5000 * Res + 1 /\ Full.filtered_band[i][j] = 5000 * Res + 1
    /\ \E i \in 1..NRows(Full.band_cropped), j \in 1..NCols(Full.band_cropped) :
          Full.band_cropped[i][j] = 1

----------------------------------------------------------------------------
(* C3 *)

ProfileFields == DOMAIN NullProfile

\* C3: once the profile has been updated it has the cropped transform aff,
\* the height and width of filtered_band, and the input's value in every
\* other field; the input dataset's own profile still describes the whole
\* input raster; and the output file is created with the updated profile.
C3_ProfileFrame ==
    Ran("full", "update_profile") =>
        /\ Full.profile.transform = Full.aff
        /\ Full.profile.height = NRows(Full.filtered_band)
        /\ Full.profile.width = NCols(Full.filtered_band)
        /\ \A k \in ProfileFields \ {"transform", "height", "width"} :
              Full.profile[k] = fs[InputPath].profile[k]
        /\ {k \in ProfileFields : Full.profile[k] # fs[InputPath].profile[k]}
              \subseteq {"transform", "height", "width"}
        /\ fs[InputPath].profile.height = NRows(Full.band)
        /\ fs[InputPath].profile.width = NCols(Full.band)
        /\ Full.aff = WindowTransform(fs[InputPath].profile.transform, Full.window)
        /\ Ran("full", "open_w") => fs[OutputPath].profile = Full.profile

\* the output file has been created for a crop smaller than the input and
\* away from its top left corner, so that all three fields differ
C3_Witness ==
    /\ Ran("full", "open_w")
    /\ {k \in ProfileFields : Full.profile[k] # fs[InputPath].profile[k]}
          = {"transform", "height", "width"}
    /\ fs[OutputPath].profile.height = 1
    /\ Full.window.col_off > 0 /\ Full.window.row_off > 0

----------------------------------------------------------------------------
(* C4 *)

\* C4: once the file has been written and read back, d equals filtered_band
\* in shape and in every cell, and the profile read back has the transform,
\* height, width and nodata value that were written.
C4_RoundTrip ==
    /\ Ran("full", "close_w") /\ Ran("full", "read_r") =>
          /\ Shape(Full.d) = Shape(Full.filtered_band)
          /\ \A i \in 1..NRows(Full.d), j \in 1..NCols(Full.d) :
                Full.d[i][j] = Full.filtered_band[i][j]
    /\ Ran("full", "close_w") /\ Ran("full", "print_r") =>
          /\ Full.r_profile.transform = Full.aff
          /\ Full.r_profile.height = NRows(Full.filtered_band)
          /\ Full.r_profile.width = NCols(Full.filtered_band)
          /\ Full.r_profile.nodata = Full.profile.nodata
          /\ Full.r_profile.nodata = -200

\* a file holding a fractional value above 5000 beside a nodata cell has
\* been written and read back
C4_Witness ==
    /\ Ran("full", "close_w") /\ Ran("full", "print_r")
    /\ \E i \in 1..NRows(Full.d), j \in 1..NCols(Full.d) :
          Full.d[i][j] = 5000 * Res + 1
    /\ \E i \in 1..NRows(Full.d), j \in 1..NCols(Full.d) :
          Full.d[i][j] = (-200) * Res
    /\ NCols(Full.d) < NCols(Full.band)

----------------------------------------------------------------------------
(* C5 *)

ErrorAt(n, s, exception) ==
    \E i \in 1..Len(errors[n]) : errors[n][i] = <<s, exception>>

----------------------------------------------------------------------------
(* C6 *)

\* the box overlaps grid cell (row, col), counted from 0, of the raster
\* whose transform is t
Touches(b, t, row, col) ==
    /\ b.left < XOfCol(t, col + 1) /\ XOfCol(t, col) < b.right
    /\ b.bottom < YOfRow(t, row) /\ YOfRow(t, row + 1) < b.top

InWindow(w, row, col) ==
    /\ w.row_off <= row /\ row < w.row_off + w.height
    /\ w.col_off <= col /\ col < w.col_off + w.width

\* C6: the window lies inside the dataset's grid and contains every grid
\* cell the reprojected box overlaps, and band_cropped has the window's
\* shape and holds band[row_off + i, col_off + j] at (i, j).
C6_CropWindow ==
    /\ Ran("full", "geometry_mask") =>
          /\ 0 <= Full.window.row_off
          /\ Full.window.row_off + Full.window.height <= fs[InputPath].profile.height
          /\ 0 <= Full.window.col_off
          /\ Full.window.col_off + Full.window.width <= fs[InputPath].profile.width
          /\ \A row \in 0..(fs[InputPath].profile.height - 1),
                col \in 0..(fs[InputPath].profile.width - 1) :
                Touches(Full.bbox_gdf, fs[InputPath].profile.transform, row, col)
                   => InWindow(Full.window, row, col)
    /\ Ran("full", "read_crop") =>
          /\ Shape(Full.band_cropped) = <<Full.window.height, Full.window.width>>
          /\ \A i \in 1..Full.window.height, j \in 1..Full.window.width :
                Full.band_cropped[i][j] =
                   Full.band[Full.window.row_off + i][Full.window.col_off + j]

\* the crop has been read for a box that ends inside a cell, reaches beyond
\* the raster's right edge and leaves out the raster's first row and column
C6_Witness ==
    /\ Ran("full", "read_crop")
    /\ Full.window.row_off > 0 /\ Full.window.col_off > 0
    /\ Full.bbox_gdf.right > XOfCol(fs[InputPath].profile.transform, Width)
    /\ (Full.bbox_gdf.bottom - fs[InputPath].profile.transform.f) % 2 # 0
    /\ NRows(Full.band_cropped) >= 1 /\ NCols(Full.band_cropped) >= 2

----------------------------------------------------------------------------
(* C7 *)

\* C7: the cropped transform keeps a and e and moves the corner to
\* c + a * col_off, f + e * row_off, and it is the transform of the output
\* file, so cell (i, j) of the output raster lies at the same x and y as
\* cell (row_off + i, col_off + j) of the input raster.
C7_Georeference ==
    LET t == fs[InputPath].profile.transform
        out == fs[OutputPath].profile.transform
    IN /\ Ran("full", "geometry_mask") =>
             /\ Full.aff.a = t.a /\ Full.aff.e = t.e
             /\ Full.aff.c = t.c + t.a * Full.window.col_off
             /\ Full.aff.f = t.f + t.e * Full.window.row_off
       /\ Ran("full", "open_w") =>
             /\ out = Full.aff
             /\ \A i \in 0..(fs[OutputPath].profile.height - 1),
                   j \in 0..(fs[OutputPath].profile.width - 1) :
                   /\ out.c + out.a * j = t.c + t.a * (Full.window.col_off + j)
                   /\ out.f + out.e * i = t.f + t.e * (Full.window.row_off + i)

\* the output file has been written for a crop that starts after the
\* input's first row and first column
C7_Witness ==
    /\ Ran("full", "close_w")
    /\ Full.window.col_off > 0 /\ Full.window.row_off > 0
    /\ fs[OutputPath].profile.transform.c # fs[InputPath].profile.transform.c
    /\ fs[OutputPath].profile.transform.f # fs[InputPath].profile.transform.f
    /\ fs[OutputPath].profile.width >= 2

----------------------------------------------------------------------------
(* C8 *)

Short == ns["short"]

Modules == FullImports \cup ShortImports

CropNames == {"dataset", "band", "bbox_gdf", "aff", "window", "band_cropped"}

\* C8: the statements of raster.ipynb are, in order, the first statements
\* of the full notebook, and what raster.ipynb has run so far without an
\* error is a prefix of them; run on the same data directory, both notebooks
\* hold the same dataset, band, bbox_gdf, aff, window and band_cropped after
\* the crop; the full notebook imports what raster.ipynb imports and numpy,
\* xarray and vectorize besides.
C8_NearIdentical ==
    /\ IsPrefix(Flatten(ShortCells), Flatten(FullCells))
    /\ Clean("short") => IsPrefix(log["short"], Flatten(FullCells))
    /\ Ran("full", "read_band") /\ Ran("short", "read_band") =>
          /\ Full.dataset = Short.dataset
          /\ Full.band = Short.band
    /\ Ran("full", "read_crop") /\ Ran("short", "read_crop") =>
          /\ Full.dataset = Short.dataset
          /\ Full.band = Short.band
          /\ Full.bbox_gdf = Short.bbox_gdf
          /\ Full.aff = Short.aff
          /\ Full.window = Short.window
          /\ Full.band_cropped = Short.band_cropped
          /\ CropNames \subseteq assigned["full"] \cap assigned["short"]
    /\ Ran("full", "imports") /\ Ran("short", "imports") =>
          /\ assigned["short"] \cap Modules \subseteq assigned["full"] \cap Modules
          /\ (assigned["full"] \cap Modules) \ (assigned["short"] \cap Modules)
                = {"np", "xr", "vectorize"}
    /\ Range(log["short"]) \cap
          {"compare", "where", "get_profile", "update_profile", "open_w", "write",
           "close_w", "open_r", "read_r", "print_r", "close_r", "to_xarray",
           "vectorize", "rename", "explore"} = {}

\* raster.ipynb has cropped after the full notebook wrote its output file,
\* and the crop is smaller than the raster
C8_Witness ==
    /\ Ran("full", "close_w")
    /\ Ran("short", "read_crop")
    /\ ~Ran("short", "open") \/ Len(log["full"]) > Len(log["short"])
    /\ status["short"] = "done"
    /\ NCols(Short.band_cropped) < NCols(Short.band)
    /\ Short.band_cropped = Full.band_cropped

----------------------------------------------------------------------------
(* C9 *)

FullHandles == handles["full"]

\* C9: the write handle and the re-read handle are never open together:
\* each is open only while the run is inside its with block, the write
\* handle is closed before the re-read opens the file; the input dataset
\* handle is open from the open on, at every statement that uses it, and
\* still when the notebook ends.
C9_Handles ==
    /\ ~(FullHandles.w = "open" /\ FullHandles.r = "open")
    /\ FullHandles.w = "open" =>
          status["full"] = "running" /\ Cur("full") \in {"write", "close_w"}
    /\ FullHandles.r = "open" =>
          status["full"] = "running" /\ Cur("full") \in {"read_r", "print_r", "close_r"}
    /\ Ran("full", "open_r") => FullHandles.w = "closed"
    /\ Ran("full", "close_r") => FullHandles.r = "closed"
    /\ FullHandles.r # "none" => FullHandles.w = "closed"
    /\ Ran("full", "open") <=> FullHandles.dataset = "open"
    /\ FullHandles.dataset # "closed"
    /\ \A s \in {"print_meta", "read_band", "geometry_mask", "read_crop", "get_profile"} :
          /\ Ran("full", s) => Ran("full", "open")
          /\ ~ErrorAt("full", s, "RasterioIOError")
    /\ ~ErrorAt("full", "write", "RasterioIOError")
    /\ ~ErrorAt("full", "read_r", "RasterioIOError")
    /\ ~ErrorAt("full", "print_r", "RasterioIOError")

\* the notebook has ended: both with blocks have closed their handles and
\* the input dataset is still open
C9_Witness ==
    /\ Finished("full")
    /\ FullHandles = [dataset |-> "open", w |-> "closed", r |-> "closed"]

----------------------------------------------------------------------------
(* C10 *)

\* C10 as stated: every cell of x_array is -200 or an integer strictly
\* greater than 5000, and is -200 exactly where filtered_band is.
C10_AsStated ==
    Ran("full", "to_xarray") =>
        \A i \in 1..NRows(Full.filtered_band), j \in 1..NCols(Full.filtered_band) :
           /\ Full.x_array.data[i][j] = -200 \/ Full.x_array.data[i][j] > 5000
           /\ Full.x_array.data[i][j] = -200 <=> Full.filtered_band[i][j] = (-200) * Res

\* C10, amended: x_array has the shape of filtered_band and nodata -200;
\* each of its cells is the cell of filtered_band with its fraction dropped,
\* so it is -200 or an integer greater than or equal to 5000 (5000 itself
\* for a population between 5000 and 5001), and it is -200 exactly where
\* filtered_band is.
C10_Truncated ==
    Ran("full", "to_xarray") =>
        /\ Full.x_array.nodata = -200
        /\ Shape(Full.x_array.data) = Shape(Full.filtered_band)
        /\ \A i \in 1..NRows(Full.filtered_band), j \in 1..NCols(Full.filtered_band) :
              /\ Full.x_array.data[i][j] = -200 \/ Full.x_array.data[i][j] >= 5000
              /\ Full.x_array.data[i][j] = -200 <=> Full.filtered_band[i][j] = (-200) * Res
              /\ Full.filtered_band[i][j] >= 0 =>
                    /\ Full.x_array.data[i][j] * Res <= Full.filtered_band[i][j]
                    /\ Full.filtered_band[i][j] < (Full.x_array.data[i][j] + 1) * Res

\* the conversion has run on a band that holds a population between 5000
\* and 5001, a nodata cell and a whole population above 5000
C10_Witness ==
    /\ Ran("full", "to_xarray")
    /\ \E i \in 1..NRows(Full.filtered_band), j \in 1..NCols(Full.filtered_band) :
          Full.filtered_band[i][j] = 5000 * Res + 1 /\ Full.x_array.data[i][j] = 5000
    /\ \E i \in 1..NRows(Full.filtered_band), j \in 1..NCols(Full.filtered_band) :
          Full.x_array.data[i][j] = -200
    /\ \E i \in 1..NRows(Full.filtered_band), j \in 1..NCols(Full.filtered_band) :
          Full.filtered_band[i][j] = 5001 * Res /\ Full.x_array.data[i][j] = 5001

=============================================================================
